---- MODULE Spec2Model ----
(***************************************************************************)
(* Model of update_local_repo.py: the release-metadata fetch, the parallel *)
(* ranged download of each artifact into a pre-allocated file under one    *)
(* lock, the whole-file SHA-256 check, and the module-level batch script.  *)
(***************************************************************************)
EXTENDS Integers, Sequences, FiniteSets, TLC

(* ------------------------------ bounds -------------------------------- *)
\* largest served resource, in bytes
MaxSize == 3
\* num_threads of download_file (default 4 in the source), scaled down
DefaultThreads == 2
\* chunk_size of download_chunk (8192 in the source), scaled down
ReadSize == 2
\* inputs of the range-planning specification
MaxPlanSize == 12
MaxPlanWorkers == 9

(* ------------------------------ helpers ------------------------------- *)
Min(a, b) == IF a < b THEN a ELSE b
Max(a, b) == IF a > b THEN a ELSE b

Bytes == {0, 1}

\* every byte string of length 0..n
Contents(n) == UNION {[1..k -> Bytes] : k \in 0..n}

\* a destination path with no file
Absent == <<-1>>

\* Python's None as returned by compute_sha256 on IOError
None == -1

\* the rpm files of the batch, in the order the script downloads them
Artifacts == <<"ctxusb.rpm", "ICAClient.rpm">>
NumArtifacts == Len(Artifacts)

\* hashlib.sha256 over a byte string: folded over the bytes in order as the
\* update() calls do; injective on byte strings (collision freedom)
RECURSIVE Sha256(_)
Sha256(s) == IF s = <<>> THEN 1
             ELSE 2 * Sha256(SubSeq(s, 1, Len(s) - 1)) + s[Len(s)]

\* the content the release digests were computed from
Published == <<(<<1, 0, 0>>), (<<0, 1, 1>>)>>

\* assets a release may list: name, digest algorithm prefix, digest value
AssetPool ==
  { [name |-> Artifacts[1], alg |-> "sha256", hex |-> Sha256(Published[1])],
    [name |-> Artifacts[2], alg |-> "sha256", hex |-> Sha256(Published[2])],
    [name |-> "extra.rpm",  alg |-> "md5",    hex |-> 7],
    [name |-> "notes.txt",  alg |-> "sha256", hex |-> 9] }

\* filename.endswith('.rpm')
EndsWithRpm(name) == name \in {Artifacts[1], Artifacts[2], "extra.rpm"}

\* the dict built by get_expected_hashes_from_api from the release assets
ExpectedHashes(assets) ==
  LET usable == {a \in assets : EndsWithRpm(a.name) /\ a.alg = "sha256"}
  IN  [n \in {a.name : a \in usable} |->
         (CHOOSE a \in usable : a.name = n).hex]

\* variant: the emptiness test of the digest dict left out
NoHashesUnchecked(h) == FALSE

\* the module-level test `if not expected_hashes`
NoHashes(h) == DOMAIN h = {}

\* variant: the last range ends like the others, the remainder is dropped
RangesNoRemainder(total, n) ==
  LET chunk == total \div n
  IN  [i \in 1..n |-> <<(i - 1) * chunk, i * chunk - 1>>]

\* the ranges computed in download_file: (start, end) inclusive, 0-based
Ranges(total, n) ==
  LET chunk == total \div n
  IN  [i \in 1..n |->
         <<(i - 1) * chunk,
           IF i - 1 < n - 1 THEN i * chunk - 1 ELSE total - 1>>]

\* a Range header the transport can honour
WellFormed(r) == r[1] <= r[2]

\* bytes start..end (0-based, inclusive) of a resource
Slice(s, start, end) == SubSeq(s, start + 1, Min(end + 1, Len(s)))

\* n zero bytes
Zeros(n) == [k \in 1..n |-> 0]

\* variant: an existing file is opened without being emptied and is only
\* extended to n bytes
AllocatedKeep(old, n) ==
  IF old = Absent THEN Zeros(n)
  ELSE [k \in 1..Max(Len(old), n) |-> IF k <= Len(old) THEN old[k] ELSE 0]

\* open(save_path, 'wb') and file.truncate(n): whatever the path held, the
\* file is emptied and then extended to n zero bytes
Allocated(old, n) == Zeros(n)

\* variant: the length of the chunk just read is not subtracted
SeekOffsetAfterChunk(start, downloaded, chunk) == start + downloaded

\* the offset download_chunk seeks to before writing a chunk
SeekOffset(start, downloaded, chunk) == start + downloaded - Len(chunk)

\* file.seek(pos); file.write(bytes) on a file of content f
WriteAt(f, pos, bytes) ==
  [k \in 1..Max(Len(f), pos + Len(bytes)) |->
     IF k > pos /\ k <= pos + Len(bytes) THEN bytes[k - pos]
     ELSE IF k <= Len(f) THEN f[k] ELSE 0]

(* ------------------------------- state -------------------------------- *)
VARIABLES
  mpc,              \* position of the module-level script
  crash,            \* the exception that ended the script, "" if none
  expected_hashes,  \* filename -> digest
  cur,              \* index of the artifact download_file is working on
  source,           \* content the server holds for that artifact
  accept_ranges,    \* whether that server honours Range headers
  total_size,
  num_threads,
  ranges,
  disk,             \* artifact index -> content of its destination file
  fpc,              \* per fetcher: position in download_chunk
  fbody,            \* per fetcher: unread rest of the response body
  fserved,          \* per fetcher: how its GET was answered; once the task failed,
                    \* "error" (transport) or "ioerror" (file), the exception caught
  downloaded,       \* per fetcher: bytes read so far (a local, 0 once the task returned)
  chunk,            \* per fetcher: bytes returned by the last read
  fpos,             \* per fetcher: position of its open file handle, or None
  lock,             \* holder of the threading.Lock, 0 if free
  outcome,          \* artifact index -> "none" | "Verified" | "Failed"
  cause,            \* artifact index -> the exception download_file raised
  computed_hash,    \* artifact index -> result of compute_sha256, if called
  handed,           \* artifacts passed to shutil.copyfile
  issued            \* kinds of download activity performed so far

vars == <<mpc, crash, expected_hashes, cur, source, accept_ranges, total_size, num_threads,
          ranges, disk, fpc, fbody, fserved, downloaded, chunk, fpos, lock,
          outcome, cause, computed_hash, handed, issued>>

fvars == <<fpc, fbody, fserved, downloaded, chunk, fpos, lock>>

Fetchers == 1..num_threads

IdleFetchers(n) ==
  /\ fpc = [i \in 1..n |-> "idle"]
  /\ fbody = [i \in 1..n |-> <<>>]
  /\ fserved = [i \in 1..n |-> "none"]
  /\ downloaded = [i \in 1..n |-> 0]
  /\ chunk = [i \in 1..n |-> <<>>]
  /\ fpos = [i \in 1..n |-> None]
  /\ lock = 0

Init ==
  /\ mpc = "meta"
  /\ crash = ""
  /\ expected_hashes = <<>>
  /\ cur = 1
  /\ source = <<>>
  /\ accept_ranges = FALSE
  /\ total_size = 0
  /\ num_threads = DefaultThreads
  /\ ranges = <<>>
  /\ disk \in [1..NumArtifacts -> {Absent, <<1, 1>>}]
  /\ IdleFetchers(DefaultThreads)
  /\ outcome = [a \in 1..NumArtifacts |-> "none"]
  /\ cause = [a \in 1..NumArtifacts |-> ""]
  /\ computed_hash = [a \in 1..NumArtifacts |-> None]
  /\ handed = {}
  /\ issued = {}

(* ------------------------- module-level script ------------------------ *)
\* lines 151-157: fetch the release digests, abort without them, then
\* remove the destination files of an earlier run
FetchMetadata ==
  /\ mpc = "meta"
  /\ \E ok \in BOOLEAN, assets \in SUBSET AssetPool :
       IF ~ok
       THEN /\ mpc' = "crashed"
            /\ crash' = "MetadataUnavailable"
            /\ UNCHANGED <<expected_hashes, disk>>
       ELSE /\ expected_hashes' = ExpectedHashes(assets)
            /\ IF NoHashes(expected_hashes')
               THEN /\ mpc' = "crashed"
                    /\ crash' = "NoDigestsFound"
                    /\ UNCHANGED disk
               ELSE /\ mpc' = "size"
                    /\ crash' = ""
                    /\ disk' = [a \in 1..NumArtifacts |-> Absent]
  /\ UNCHANGED <<cur, source, accept_ranges, total_size, num_threads, ranges,
                 fvars, outcome, cause, computed_hash, handed, issued>>

\* variant: the exception is logged and not re-raised, the script goes on
FailSwallowed(why) ==
  /\ outcome' = [outcome EXCEPT ![cur] = "Failed"]
  /\ cause' = [cause EXCEPT ![cur] = why]
  /\ mpc' = "place"
  /\ crash' = crash

\* download_file raising: the artifact is Failed and, the call sitting at
\* module level with no handler, the script ends
Fail(why) ==
  /\ outcome' = [outcome EXCEPT ![cur] = "Failed"]
  /\ cause' = [cause EXCEPT ![cur] = why]
  /\ mpc' = "crashed"
  /\ crash' = why

(* ---------------------------- download_file --------------------------- *)
\* the integers a Content-Length header may carry: it need not be the
\* length of the resource and may be negative
MinLength == -5
ContentLengths == MinLength..MaxSize

\* variant: the size is used without the zero test
NoSizeUnchecked(length) == FALSE

\* line 96: `if total_size == 0`
NoSize(length) == length = 0

\* lines 94-98: the size-discovery request; total_size is
\* int(response.getheader('Content-Length', 0)), whatever the resource
\* holds: 0 without the header, ValueError from int() on text that is no
\* number
DiscoverSize ==
  /\ mpc = "size"
  /\ issued' = issued \cup {"size"}
  /\ \E reply \in {"length", "no_header", "not_a_number", "url_error"},
        header \in ContentLengths,
        content \in Contents(MaxSize), honours \in BOOLEAN :
       LET length == IF reply = "no_header" THEN 0 ELSE header
       IN
       CASE reply = "url_error" ->
              /\ Fail("URLError")
              /\ UNCHANGED <<source, accept_ranges, total_size>>
         [] reply = "not_a_number" ->
              /\ Fail("ValueError")
              /\ UNCHANGED <<source, accept_ranges, total_size>>
         [] reply \in {"length", "no_header"} /\ NoSize(length) ->
              /\ Fail("ValueError")
              /\ UNCHANGED <<source, accept_ranges, total_size>>
         [] OTHER ->
              /\ source' = content
              /\ accept_ranges' = honours
              /\ total_size' = length
              /\ mpc' = "alloc"
              /\ UNCHANGED <<crash, outcome, cause>>
  /\ UNCHANGED <<expected_hashes, cur, num_threads, ranges, disk, fvars,
                 computed_hash, handed>>

\* lines 100-114: allocate the destination file, create the progress bar and
\* the lock, plan the ranges and submit one download_chunk per range.
\* os.makedirs or open may raise, leaving the path as it was; once
\* open(save_path, 'wb') has succeeded the file exists and is empty, and
\* file.truncate may still raise, as it always does for a negative size
Allocate ==
  /\ mpc = "alloc"
  /\ \E fault \in {"none", "before_open", "truncate"} :
       CASE fault = "before_open" ->
              /\ Fail("IOError")
              /\ UNCHANGED <<ranges, disk, fvars, issued>>
         [] fault = "truncate" \/ (fault = "none" /\ total_size < 0) ->
              /\ Fail("IOError")
              /\ disk' = [disk EXCEPT ![cur] = <<>>]
              /\ UNCHANGED <<ranges, fvars, issued>>
         [] OTHER ->
              /\ disk' = [disk EXCEPT ![cur] = Allocated(@, total_size)]
              /\ issued' = issued \cup {"alloc"}
              /\ ranges' = Ranges(total_size, num_threads)
              /\ fpc' = [i \in Fetchers |-> "request"]
              /\ fbody' = [i \in Fetchers |-> <<>>]
              /\ fserved' = [i \in Fetchers |-> "none"]
              /\ downloaded' = [i \in Fetchers |-> 0]
              /\ chunk' = [i \in Fetchers |-> <<>>]
              /\ fpos' = [i \in Fetchers |-> None]
              /\ lock' = 0
              /\ mpc' = "join"
              /\ UNCHANGED <<crash, outcome, cause>>
  /\ UNCHANGED <<expected_hashes, cur, source, accept_ranges, total_size,
                 num_threads, computed_hash, handed>>

(* ---------------------------- download_chunk -------------------------- *)
\* what is left unchanged by a step of a fetcher
MainUnchanged ==
  UNCHANGED <<mpc, crash, expected_hashes, cur, source, accept_ranges,
              total_size, num_threads, ranges, outcome, cause, computed_hash, handed>>

\* variant: a failing task also cancels the siblings still waiting to start
CaughtCancelling(i, how) ==
  /\ fpc' = [j \in DOMAIN fpc |->
               IF j = i \/ fpc[j] = "request" THEN "failed" ELSE fpc[j]]
  /\ fserved' = [j \in DOMAIN fpc |->
                   IF j = i \/ fpc[j] = "request" THEN how ELSE fserved[j]]
  /\ downloaded' = [downloaded EXCEPT ![i] = 0]
  /\ fbody' = [fbody EXCEPT ![i] = <<>>]
  /\ chunk' = [chunk EXCEPT ![i] = <<>>]
  /\ fpos' = [fpos EXCEPT ![i] = None]

\* an exception in download_chunk: caught and logged (lines 83-90), the
\* task returns normally
Caught(i, how) ==
  /\ fpc' = [fpc EXCEPT ![i] = "failed"]
  /\ fserved' = [fserved EXCEPT ![i] = how]
  /\ downloaded' = [downloaded EXCEPT ![i] = 0]
  /\ fbody' = [fbody EXCEPT ![i] = <<>>]
  /\ chunk' = [chunk EXCEPT ![i] = <<>>]
  /\ fpos' = [fpos EXCEPT ![i] = None]

\* lines 67-71: the ranged GET.  It fails, or a server that honours Range
\* answers a well-formed range with exactly its bytes, or the header is
\* ignored and the whole resource is sent.
Request(i) ==
  /\ fpc[i] = "request"
  /\ issued' = issued \cup {"range"}
  /\ \E reply \in {"body", "error"} :
       CASE reply = "error" ->
              Caught(i, "error")
         [] reply = "body" /\ accept_ranges /\ WellFormed(ranges[i]) ->
              /\ fbody' = [fbody EXCEPT ![i] =
                             Slice(source, ranges[i][1], ranges[i][2])]
              /\ fserved' = [fserved EXCEPT ![i] = "range"]
              /\ fpc' = [fpc EXCEPT ![i] = "read"]
              /\ UNCHANGED <<downloaded, chunk, fpos>>
         [] OTHER ->
              /\ fbody' = [fbody EXCEPT ![i] = source]
              /\ fserved' = [fserved EXCEPT ![i] = "full"]
              /\ fpc' = [fpc EXCEPT ![i] = "read"]
              /\ UNCHANGED <<downloaded, chunk, fpos>>
  /\ UNCHANGED <<lock, disk>>
  /\ MainUnchanged

\* lines 73-76: one response.read(chunk_size); it returns between one and
\* chunk_size bytes, nothing at the end of the body, or raises
Read(i) ==
  /\ fpc[i] = "read"
  /\ \/ /\ fbody[i] = <<>>
        /\ fpc' = [fpc EXCEPT ![i] = "done"]
        /\ downloaded' = [downloaded EXCEPT ![i] = 0]
        /\ UNCHANGED <<fbody, fserved, chunk, fpos>>
     \/ \E k \in 1..Min(ReadSize, Len(fbody[i])) :
          /\ chunk' = [chunk EXCEPT ![i] = SubSeq(fbody[i], 1, k)]
          /\ fbody' = [fbody EXCEPT ![i] = SubSeq(fbody[i], k + 1, Len(fbody[i]))]
          /\ downloaded' = [downloaded EXCEPT ![i] = @ + k]
          /\ fpc' = [fpc EXCEPT ![i] = "lock"]
          /\ UNCHANGED <<fserved, fpos>>
     \/ Caught(i, "error")
  /\ UNCHANGED <<lock, disk, issued>>
  /\ MainUnchanged

\* variant: the critical section entered without waiting for the lock
CanAcquireAlways(l) == TRUE

\* `with lock:` can be entered
CanAcquire(l) == l = 0

\* line 77: acquire the lock
Acquire(i) ==
  /\ fpc[i] = "lock"
  /\ CanAcquire(lock)
  /\ lock' = i
  /\ fpc' = [fpc EXCEPT ![i] = "seek"]
  /\ UNCHANGED <<fbody, fserved, downloaded, chunk, fpos, disk, issued>>
  /\ MainUnchanged

\* variant: the lock is acquired by hand and never given back
ReleasedNever(i) == lock

\* leaving `with lock:`; only the holder's exit frees it
Released(i) == IF lock = i THEN 0 ELSE lock

\* lines 78-79: open the file on a handle of its own and seek; an IOError
\* leaves the with-blocks, releasing the lock
Seek(i) ==
  /\ fpc[i] = "seek"
  /\ \/ /\ fpos' = [fpos EXCEPT ![i] =
                      SeekOffset(ranges[i][1], downloaded[i], chunk[i])]
        /\ fpc' = [fpc EXCEPT ![i] = "write"]
        /\ UNCHANGED <<fbody, fserved, downloaded, chunk, lock>>
     \/ /\ Caught(i, "ioerror")
        /\ lock' = Released(i)
  /\ UNCHANGED <<disk, issued>>
  /\ MainUnchanged

\* lines 80-81 and the end of `with lock:`: the chunk reaches the file when
\* the handle is closed, the progress bar is advanced (an advisory count,
\* not kept in the state) and the lock is released.  A failing write or
\* close leaves on disk the first k bytes of the chunk it had written
\* before the OSError, none of them to all of them; an exception of the
\* progress update comes after the whole chunk.  Every exception leaves
\* the with-blocks and releases the lock.
Write(i) ==
  /\ fpc[i] = "write"
  /\ \/ /\ disk' = [disk EXCEPT ![cur] = WriteAt(@, fpos[i], chunk[i])]
        /\ fpos' = [fpos EXCEPT ![i] = None]
        /\ chunk' = [chunk EXCEPT ![i] = <<>>]
        /\ fpc' = [fpc EXCEPT ![i] = "read"]
        /\ UNCHANGED <<fbody, fserved, downloaded>>
     \/ /\ Caught(i, "ioerror")
        /\ \E k \in 0..Len(chunk[i]) :
             IF k = 0
             THEN UNCHANGED disk
             ELSE disk' = [disk EXCEPT ![cur] =
                             WriteAt(@, fpos[i], SubSeq(chunk[i], 1, k))]
  /\ lock' = Released(i)
  /\ UNCHANGED issued
  /\ MainUnchanged

(* ------------------- download_file: join and verify ------------------- *)
\* variant: the tasks are submitted and not waited for
AllJoinedNoWait(pcs) == TRUE

\* variant: only the first future is waited for
AllJoinedFirst(pcs) == pcs[1] \in {"done", "failed"}

\* lines 115-117: future.result() on every future, then the executor's exit
AllJoined(pcs) == \A i \in DOMAIN pcs : pcs[i] \in {"done", "failed"}

Join ==
  /\ mpc = "join"
  /\ AllJoined(fpc)
  /\ mpc' = "verify"
  /\ UNCHANGED <<crash, expected_hashes, cur, source, accept_ranges, total_size,
                 num_threads, ranges, disk, fvars, outcome, cause,
                 computed_hash, handed, issued>>

\* compute_sha256: the digest of the file, or None when it cannot be read
ComputeSha256(f, readable) == IF readable THEN Sha256(f) ELSE None

\* variant: the digests are not compared
VerifyCauseNoCompare(hashes, filename, computed) ==
  IF filename \notin DOMAIN hashes THEN "NoExpectedHash"
  ELSE IF computed = None THEN "HashComputationFailed"
  ELSE ""

\* variant: an artifact without a digest entry is accepted unchecked
VerifyCauseOptional(hashes, filename, computed) ==
  IF filename \notin DOMAIN hashes THEN ""
  ELSE IF computed = None THEN "HashComputationFailed"
  ELSE IF computed # hashes[filename] THEN "HashMismatch"
  ELSE ""

\* lines 123-132: the exception raised by the checks, "" when none is
VerifyCause(hashes, filename, computed) ==
  IF filename \notin DOMAIN hashes THEN "NoExpectedHash"
  ELSE IF computed = None THEN "HashComputationFailed"
  ELSE IF computed # hashes[filename] THEN "HashMismatch"
  ELSE ""

\* download_file returned normally: the script goes on to the next call
\* (lines 159-160) or to the placement (line 162)
Return ==
  /\ outcome' = [outcome EXCEPT ![cur] = "Verified"]
  /\ IF cur < NumArtifacts
     THEN cur' = cur + 1 /\ mpc' = "size"
     ELSE cur' = cur /\ mpc' = "place"
  /\ UNCHANGED <<cause, crash>>

\* lines 123-145
Verify ==
  /\ mpc = "verify"
  /\ \E readable \in BOOLEAN :
       LET filename == Artifacts[cur]
           called == filename \in DOMAIN expected_hashes
           computed == IF called THEN ComputeSha256(disk[cur], readable)
                       ELSE None
           why == VerifyCause(expected_hashes, filename, computed)
       IN  /\ computed_hash' = [computed_hash EXCEPT ![cur] = computed]
           /\ IF why = "" THEN Return
              ELSE Fail(why) /\ UNCHANGED cur
  /\ UNCHANGED <<expected_hashes, source, accept_ranges, total_size,
                 num_threads, ranges, disk, fvars, handed, issued>>

(* ------------------------------ placement ----------------------------- *)
\* lines 162-165: os.makedirs without exist_ok raises when the directory is
\* there; shutil.copyfile is given the directory as destination and raises
\* IsADirectoryError on its first call
Place ==
  /\ mpc = "place"
  /\ \E dir_exists \in BOOLEAN :
       IF dir_exists
       THEN crash' = "FileExistsError" /\ UNCHANGED handed
       ELSE crash' = "IsADirectoryError" /\ handed' = handed \cup {1}
  /\ mpc' = "crashed"
  /\ UNCHANGED <<expected_hashes, cur, source, accept_ranges, total_size,
                 num_threads, ranges, disk, fvars, outcome, cause,
                 computed_hash, issued>>

(* ---------------------------- specification --------------------------- *)
Next ==
  \/ FetchMetadata
  \/ DiscoverSize
  \/ Allocate
  \/ \E i \in Fetchers : Request(i)
  \/ \E i \in Fetchers : Read(i)
  \/ \E i \in Fetchers : Acquire(i)
  \/ \E i \in Fetchers : Seek(i)
  \/ \E i \in Fetchers : Write(i)
  \/ Join
  \/ Verify
  \/ Place

Spec == Init /\ [][Next]_vars

\* the script and every fetcher thread keep being scheduled, and every
\* transport request returns
MainStep == FetchMetadata \/ DiscoverSize \/ Allocate \/ Join \/ Verify \/ Place

FetcherStep(i) == Request(i) \/ Read(i) \/ Acquire(i) \/ Seek(i) \/ Write(i)

Fairness ==
  /\ WF_vars(MainStep)
  /\ \A i \in 1..DefaultThreads : WF_vars(FetcherStep(i))

SpecLive == Spec /\ Fairness

(* ----------------- range planning as a pure function ------------------ *)
PlanInit ==
  /\ mpc = "plan"
  /\ crash = ""
  /\ expected_hashes = <<>>
  /\ cur = 1
  /\ source = <<>>
  /\ accept_ranges = FALSE
  /\ total_size \in 1..MaxPlanSize
  /\ num_threads \in 1..MaxPlanWorkers
  /\ ranges = <<>>
  /\ disk = [a \in 1..NumArtifacts |-> Absent]
  /\ IdleFetchers(0)
  /\ outcome = [a \in 1..NumArtifacts |-> "none"]
  /\ cause = [a \in 1..NumArtifacts |-> ""]
  /\ computed_hash = [a \in 1..NumArtifacts |-> None]
  /\ handed = {}
  /\ issued = {}

\* lines 107-109 applied to the chosen total_size and num_threads
PlanRanges ==
  /\ mpc = "plan"
  /\ ranges' = Ranges(total_size, num_threads)
  /\ mpc' = "planned"
  /\ UNCHANGED <<crash, expected_hashes, cur, source, accept_ranges, total_size,
                 num_threads, disk, fvars, outcome, cause, computed_hash,
                 handed, issued>>

PlanNext == PlanRanges

SpecPlan == PlanInit /\ [][PlanNext]_vars

(* -------------- download_file on existing destinations -------------- *)
\* destination files left by an earlier run: the correct ones, longer
\* ones, shorter ones
PriorFiles ==
  { [a \in 1..NumArtifacts |-> Published[a]],
    [a \in 1..NumArtifacts |-> <<1, 1, 1, 1>>],
    [a \in 1..NumArtifacts |-> <<1>>] }

\* the calls of lines 159-160 made with the digests of the release loaded
\* and the destination files present
RerunInit ==
  /\ mpc = "size"
  /\ crash = ""
  /\ expected_hashes = ExpectedHashes(AssetPool)
  /\ cur = 1
  /\ source = <<>>
  /\ accept_ranges = FALSE
  /\ total_size = 0
  /\ num_threads = DefaultThreads
  /\ ranges = <<>>
  /\ disk \in PriorFiles
  /\ IdleFetchers(DefaultThreads)
  /\ outcome = [a \in 1..NumArtifacts |-> "none"]
  /\ cause = [a \in 1..NumArtifacts |-> ""]
  /\ computed_hash = [a \in 1..NumArtifacts |-> None]
  /\ handed = {}
  /\ issued = {}

RerunNext ==
  \/ DiscoverSize
  \/ Allocate
  \/ \E i \in Fetchers : Request(i)
  \/ \E i \in Fetchers : Read(i)
  \/ \E i \in Fetchers : Acquire(i)
  \/ \E i \in Fetchers : Seek(i)
  \/ \E i \in Fetchers : Write(i)
  \/ Join
  \/ Verify
  \/ Place

SpecRerun == RerunInit /\ [][RerunNext]_vars

(* ------------------------------- claims ------------------------------- *)
Finished(i) == fpc[i] \in {"done", "failed"}
InCritical(i) == fpc[i] \in {"seek", "write"}

\* the Content-Length of the size discovery is the length of the resource
SizeReported == total_size = Len(source)

\* C1: the seek and the write of one chunk form one critical section: at
\* most one fetcher is inside the lock-protected section and it holds the
\* lock, and while a fetcher stands between its seek and its write no step
\* seeks or writes on the output file.
C1_CriticalSection ==
  /\ [](\A i \in Fetchers :
          InCritical(i) => /\ lock = i
                           /\ \A j \in Fetchers : InCritical(j) => j = i)
  /\ [][\A i \in Fetchers :
          (fpc[i] = "write" /\ fpc'[i] = "write")
            => (fpos' = fpos /\ disk' = disk)]_vars

\* a fetcher has seeked and not yet written while another waits for the lock
C1_Witness ==
  \E i, j \in Fetchers : i # j /\ fpc[i] = "write" /\ fpc[j] = "lock"

\* C2: an artifact is Verified only if compute_sha256 ran on the finished
\* file and succeeded and its result equals the digest stored for the
\* filename; a file differing from the published content in any byte is
\* never Verified.
C2_VerifiedOnlyOnMatch ==
  \A a \in 1..NumArtifacts :
    outcome[a] = "Verified" =>
      /\ Artifacts[a] \in DOMAIN expected_hashes
      /\ computed_hash[a] # None
      /\ computed_hash[a] = Sha256(disk[a])
      /\ computed_hash[a] = expected_hashes[Artifacts[a]]
      /\ disk[a] = Published[a]

C2_Witness ==
  /\ outcome[1] = "Verified"
  /\ outcome[2] = "Failed" /\ cause[2] = "HashMismatch"
  /\ Len(disk[2]) = Len(Published[2])

\* C3: when a chunk fetcher of an artifact ended with an error, the
\* artifact is not Verified (stated on the step that ends download_file,
\* for a resource whose size was reported truly).
C3_FetchErrorNeverVerified ==
  [][(mpc = "verify" /\ SizeReported /\ \E i \in Fetchers : fpc[i] = "failed")
       => outcome'[cur] # "Verified"]_vars

\* C4: only an artifact whose download_file ended Verified is passed to
\* the copy into the repository directory.
C4_PlacementOnlyVerified ==
  /\ \A a \in handed : outcome[a] = "Verified" /\ disk[a] = Published[a]
  /\ mpc = "place" => \A a \in 1..NumArtifacts : outcome[a] = "Verified"

C4_Witness == handed # {} /\ mpc = "crashed"

\* C5: the hash check starts only when every launched fetcher has
\* finished, with or without an error.
C5_HashAfterAllFetchers ==
  /\ [](mpc = "verify" => \A i \in Fetchers : Finished(i))
  /\ [][computed_hash' # computed_hash => \A i \in Fetchers : Finished(i)]_vars

C5_Witness ==
  /\ mpc = "verify"
  /\ \E i, j \in Fetchers : fpc[i] = "failed" /\ fpc[j] = "done"

\* C6: for 1 <= workerCount <= totalSize the planned ranges number
\* workerCount, range i starts at i * floor(totalSize/workerCount), all but
\* the last have that length, the last ends at totalSize - 1, and they are
\* contiguous, disjoint and cover [0, totalSize).
C6_RangePartition ==
  (mpc = "planned" /\ num_threads <= total_size) =>
    LET n == num_threads
        q == total_size \div n
    IN  /\ Len(ranges) = n
        /\ \A i \in 1..n : ranges[i][1] = (i - 1) * q
        /\ \A i \in 1..(n - 1) : ranges[i][2] - ranges[i][1] + 1 = q
        /\ ranges[n][2] = total_size - 1
        /\ \A i \in 1..(n - 1) : ranges[i + 1][1] = ranges[i][2] + 1
        /\ \A i \in 1..n : ranges[i][1] <= ranges[i][2]
        /\ \A k \in 0..(total_size - 1) :
             Cardinality({i \in 1..n : ranges[i][1] <= k /\ k <= ranges[i][2]}) = 1
        /\ \A i \in 1..n : ranges[i][1] >= 0 /\ ranges[i][2] <= total_size - 1
        /\ Ranges(1000000, 4) = << <<0, 249999>>, <<250000, 499999>>,
                                   <<500000, 749999>>, <<750000, 999999>> >>

C6_Witness ==
  /\ mpc = "planned"
  /\ num_threads > 1 /\ num_threads < total_size
  /\ total_size % num_threads # 0

\* C7: when the transport reported the size of the source, every fetcher
\* was served exactly the bytes of its range and finished without error,
\* the assembled file equals the source, and so does its digest.
C7_RoundTrip ==
  (/\ mpc \in {"join", "verify"}
   /\ SizeReported
   /\ \A i \in Fetchers : fserved[i] = "range" /\ fpc[i] = "done")
    => /\ disk[cur] = source
       /\ Sha256(disk[cur]) = Sha256(source)

C7_Witness ==
  /\ mpc = "verify"
  /\ SizeReported
  /\ \A i \in Fetchers : fserved[i] = "range" /\ fpc[i] = "done"
  /\ Len(source) >= 3 /\ source[2] = 1

\* C8 as stated: when the run has ended with the first artifact Failed,
\* the second artifact has still been brought to a terminal state.
C8_SiblingsStillProcessed ==
  (mpc = "crashed" /\ outcome[1] = "Failed") => outcome[2] # "none"

\* C8 amended: a Failed artifact ends the run with the exception that
\* failed it; no later artifact is allocated or given an outcome and
\* nothing is placed.
C8_FailureEndsRun ==
  \A a \in 1..NumArtifacts :
    outcome[a] = "Failed" =>
      /\ mpc = "crashed" /\ crash = cause[a]
      /\ handed = {}
      /\ \A b \in (a + 1)..NumArtifacts :
           outcome[b] = "none" /\ disk[b] = Absent

C8_Witness ==
  /\ outcome[1] = "Failed" /\ cause[1] = "HashMismatch"
  /\ Artifacts[2] \in DOMAIN expected_hashes

\* C9: without usable digests (metadata fetch failed or no usable entry)
\* the run ends before any size-discovery request, allocation or ranged GET.
C9_NoDownloadWithoutDigests ==
  /\ crash \in {"MetadataUnavailable", "NoDigestsFound"}
       => /\ mpc = "crashed" /\ issued = {}
          /\ \A a \in 1..NumArtifacts : outcome[a] = "none"
  /\ (issued # {} \/ mpc \notin {"meta", "crashed"})
       => DOMAIN expected_hashes # {}

C9_Witness == crash = "NoDigestsFound" /\ mpc = "crashed"

\* C10: an artifact whose filename has no digest entry is never Verified,
\* and the check that follows its download fails it for the missing entry,
\* whatever the file holds.
C10_MissingDigestFails ==
  /\ [](\A a \in 1..NumArtifacts :
          (mpc # "meta" /\ Artifacts[a] \notin DOMAIN expected_hashes)
            => outcome[a] # "Verified")
  /\ [][(mpc = "verify" /\ Artifacts[cur] \notin DOMAIN expected_hashes)
          => (outcome'[cur] = "Failed" /\ cause'[cur] = "NoExpectedHash")]_vars

C10_Witness ==
  \E a \in 1..NumArtifacts :
    /\ outcome[a] = "Failed" /\ cause[a] = "NoExpectedHash"
    /\ disk[a] = Published[a]

\* C11: an artifact whose only fault is a transport error of a chunk
\* fetcher (genuine content of the reported size, digest listed) is not reported
\* with the digest-mismatch cause (stated on the step that ends
\* download_file).
C11_TransportFaultNotMismatch ==
  [][(/\ mpc = "verify"
      /\ source = Published[cur] /\ SizeReported
      /\ Artifacts[cur] \in DOMAIN expected_hashes
      /\ \E i \in Fetchers : fserved[i] = "error"
      /\ \A i \in Fetchers : fserved[i] \in {"error", "range"})
       => cause'[cur] # "HashMismatch"]_vars

\* C12: when size discovery reports no size, download_file fails there:
\* the destination file is neither created nor truncated, no range is
\* planned and no fetcher is launched; allocation and download never run
\* with the size 0 (a negative Content-Length is a reported size: it passes
\* the test of line 96 and fails in the allocation).
C12_NoSizeNoAllocation ==
  /\ [](mpc \in {"alloc", "join", "verify"} => total_size # 0)
  /\ [](\A a \in 1..NumArtifacts :
          cause[a] = "ValueError"
            => outcome[a] = "Failed" /\ disk[a] = Absent /\ mpc = "crashed")
  /\ [][(cause'[cur] = "ValueError" /\ cause[cur] # "ValueError")
          => (disk' = disk /\ ranges' = ranges /\ fpc' = fpc)]_vars

C12_Witness ==
  /\ outcome[1] = "Verified"
  /\ outcome[2] = "Failed" /\ cause[2] = "ValueError"
  /\ disk[2] = Absent

\* one step of fetcher j is possible
CanStep(j) == ENABLED (Request(j) \/ Read(j) \/ Seek(j) \/ Write(j))

\* C13: there is no cancellation: the step in which one fetcher fails
\* changes nothing of any sibling, a sibling in flight can always take its
\* next step, one waiting for the lock waits only for a fetcher inside the
\* critical section, and the orchestrator leaves the join only when all
\* have finished.
C13_NoCancellation ==
  /\ [][\A i, j \in Fetchers :
          (i # j /\ fpc[i] # "failed" /\ fpc'[i] = "failed")
            => /\ fpc'[j] = fpc[j] /\ fserved'[j] = fserved[j]
               /\ fbody'[j] = fbody[j] /\ chunk'[j] = chunk[j]
               /\ downloaded'[j] = downloaded[j] /\ fpos'[j] = fpos[j]]_vars
  /\ [](\A j \in Fetchers :
          /\ (mpc = "join" /\ fpc[j] \in {"request", "read", "seek", "write"})
               => CanStep(j)
          /\ (mpc = "join" /\ fpc[j] = "lock" /\ lock # 0)
               => InCritical(lock))
  /\ [][(mpc = "join" /\ mpc' # "join")
          => \A j \in Fetchers : Finished(j)]_vars

\* one fetcher has failed while a sibling is in the middle of a write
C13_Witness ==
  /\ mpc = "join"
  /\ \E i, j \in Fetchers : fpc[i] = "failed" /\ fpc[j] = "write"

\* C14: the artifacts are processed one after another: the second
\* artifact's cycle begins only when the first has ended Verified, no
\* fetcher is active and the lock is free when a cycle begins or the script
\* moves to the next artifact, and a destination file changes only during
\* its own artifact's cycle.
C14_Sequential ==
  /\ [](cur # 1 => \A a \in 1..(cur - 1) : outcome[a] = "Verified")
  /\ [](mpc \in {"size", "alloc"}
          => /\ \A i \in Fetchers : fpc[i] \in {"idle", "done", "failed"}
             /\ lock = 0)
  /\ [][cur' # cur => (\A i \in Fetchers : Finished(i)) /\ lock = 0]_vars
  /\ [][\A a \in 1..NumArtifacts :
          (mpc # "meta" /\ disk'[a] # disk[a])
            => (a = cur /\ outcome[a] = "none")]_vars

\* the second artifact is being fetched after the first was Verified
C14_Witness ==
  /\ cur = 2 /\ mpc = "join"
  /\ \E i \in Fetchers : fpc[i] = "write"
  /\ \E j \in Fetchers : fpc[j] = "read"

\* every fetcher of the current artifact was served its range and is done
AllServedAndDone ==
  \A i \in Fetchers : fserved[i] = "range" /\ fpc[i] = "done"

\* C15: download_file run on a destination that already exists allocates
\* it afresh as total_size zero bytes whatever it held; with the genuine
\* source, its size reported and every fetch successful the file is again
\* the published content and the call ends Verified with the published
\* digest (unless the file cannot be read back for hashing).
C15_Idempotent ==
  /\ [][(mpc = "alloc" /\ mpc' = "join")
          => disk'[cur] = Zeros(total_size)]_vars
  /\ []((mpc = "verify" /\ AllServedAndDone /\ SizeReported
            /\ source = Published[cur])
          => disk[cur] = Published[cur])
  /\ [][(mpc = "verify" /\ AllServedAndDone /\ SizeReported
            /\ source = Published[cur])
          => \/ /\ outcome'[cur] = "Verified"
                /\ computed_hash'[cur] = Sha256(Published[cur])
             \/ /\ outcome'[cur] = "Failed"
                /\ cause'[cur] = "HashComputationFailed"]_vars

\* the first artifact, present and correct before the call, is Verified
\* again; the second, also present and correct, is next
C15_Witness ==
  /\ outcome[1] = "Verified" /\ computed_hash[1] = Sha256(Published[1])
  /\ cur = 2 /\ mpc = "size"
  /\ disk[1] = Published[1] /\ disk[2] = Published[2]

\* C16: for every totalSize > 0 and workerCount >= 1, also with
\* workerCount > totalSize, every planned range is a well-formed inclusive
\* range 0 <= start <= end <= totalSize - 1 and the ranges are contiguous,
\* disjoint and cover [0, totalSize).
C16_WellFormedRanges ==
  mpc = "planned" =>
    LET n == num_threads
    IN  /\ \A i \in 1..n :
             0 <= ranges[i][1] /\ ranges[i][1] <= ranges[i][2]
               /\ ranges[i][2] <= total_size - 1
        /\ \A i \in 1..(n - 1) : ranges[i + 1][1] = ranges[i][2] + 1
        /\ \A k \in 0..(total_size - 1) :
             Cardinality({i \in 1..n : ranges[i][1] <= k /\ k <= ranges[i][2]}) = 1

\* C17: every byte a fetcher writes lands inside its own range, whatever
\* body the transport delivers, and the output file never grows beyond
\* total_size (stated for a size reported truly and ranges that are
\* well-formed, start <= end).
C17_WritesInsideOwnRange ==
  /\ \A i \in Fetchers :
       (fpc[i] = "write" /\ SizeReported /\ WellFormed(ranges[i]))
         => /\ ranges[i][1] <= fpos[i]
            /\ fpos[i] + Len(chunk[i]) - 1 <= ranges[i][2]
  /\ (/\ mpc \in {"join", "verify"} /\ SizeReported
      /\ \A i \in Fetchers : WellFormed(ranges[i]))
       => Len(disk[cur]) <= total_size

\* C18: every call of download_file ends Verified or Failed: a finished
\* fetcher never holds the lock, the lock is only ever held by a fetcher
\* inside the critical section, and a started call reaches its outcome.
C18_Terminates ==
  /\ [](\A i \in Fetchers : Finished(i) => lock # i)
  /\ [](lock # 0 => InCritical(lock))
  /\ \A a \in 1..NumArtifacts :
       (mpc = "size" /\ cur = a) ~> (outcome[a] \in {"Verified", "Failed"})

\* a fetcher failed inside the critical section and a sibling holds the
\* lock after it
C18_Witness ==
  \E i, j \in Fetchers :
    fserved[i] = "ioerror" /\ fpc[j] = "write" /\ lock = j

====
